---- MODULE Spec2Model ----
(***************************************************************************)
(* Model of the audio concatenation pipelines                              *)
(*   services/audio_combiner.py        process_audio_concatenation         *)
(*   services/v1/audio/concatenate.py  process_audio_concatenate           *)
(* with the helpers of services/file_management.py (download_file,         *)
(* cleanup_files) and the job dispatch of services/gcp_toolkit.py          *)
(* (trigger_cloud_run_job).                                                *)
(*                                                                         *)
(* Local storage is a map from paths to file contents; every file system   *)
(* operation of a job (one download, the manifest write, the merge, the    *)
(* upload, one os.remove) is one atomic step, so that the steps of two     *)
(* jobs interleave at that grain.                                          *)
(***************************************************************************)
EXTENDS Integers, Sequences, FiniteSets, TLC

----------------------------------------------------------------------------
(* Bounds *)

MaxUrls == 2
NumUuidPrefix == 2

----------------------------------------------------------------------------
(* Paths: a path is its sequence of components, "/" first when absolute.   *)

LOCAL_STORAGE_PATH == <<"/", "tmp">>

\* The working directory of the serving process (os.path.abspath reads it).
PROCESS_CWD == <<"/", "app">>

NoPath == <<>>

join(dir, name) == dir \o <<name>>

basename(p) == p[Len(p)]

IsAbs(p) == Len(p) > 0 /\ p[1] = "/"

abspath(p) == IF IsAbs(p) THEN p ELSE PROCESS_CWD \o p

\* A manifest reference as the merge tool reads it from directory cwd.
Resolve(cwd, ref) == IF IsAbs(ref) THEN ref ELSE cwd \o ref

----------------------------------------------------------------------------
(* URLs are sequences of characters; the extension is computed from them   *)
(* as download_file computes it.                                           *)

Max(S) == CHOOSE m \in S : \A n \in S : n <= m
Min(S) == CHOOSE m \in S : \A n \in S : m <= n

IndicesOf(s, c) == {i \in 1..Len(s) : s[i] = c}

\* s.split(c)[0]
SplitFirst(s, c) ==
    IF IndicesOf(s, c) = {} THEN s ELSE SubSeq(s, 1, Min(IndicesOf(s, c)) - 1)

\* s.split(c)[-1]
SplitLast(s, c) ==
    IF IndicesOf(s, c) = {} THEN s ELSE SubSeq(s, Max(IndicesOf(s, c)) + 1, Len(s))

\* os.path.basename(url)
url_basename(url) == SplitLast(url, "/")

\* os.path.splitext(name)[1]: from the last dot, unless only dots precede it
splitext(name) ==
    IF IndicesOf(name, ".") = {} THEN <<>>
    ELSE LET k == Max(IndicesOf(name, "."))
         IN  IF \E i \in 1..(k - 1) : name[i] # "." THEN SubSeq(name, k, Len(name))
             ELSE <<>>

RECURSIVE Str(_)
Str(cs) == IF cs = <<>> THEN "" ELSE Head(cs) \o Str(Tail(cs))

MP4 == <<".", "m", "p", "4">>

MaxExtLen == 5

Extension(url) ==
    LET e0 == splitext(SplitFirst(url_basename(url), "?"))
        e1 == IF e0 = <<>> THEN MP4 ELSE e0
        e2 == <<".">> \o SplitFirst(SplitLast(url_basename(url), "."), "?")
    IN  IF Len(e1) > MaxExtLen
        THEN (IF Len(e2) > MaxExtLen THEN MP4 ELSE e2)
        ELSE e1

\* uuid.uuid4(): a sequence of groups; str(..).split('-')[0] keeps the first.
Uuid4 == {<<"u" \o ToString(k), r>> : k \in 1..NumUuidPrefix, r \in {"x", "y"}}

unique_id(u) == u[1]

local_filename(url, storage_path, u) ==
    join(storage_path, unique_id(u) \o Str(Extension(url)))

----------------------------------------------------------------------------
(* Inputs *)

Jobs == {"A", "B"}

Variants == {"combiner", "concatenate"}

U_MP3 == <<"h", "/", "a", ".", "m", "p", "3">>
U_BARE == <<"h", "/", "b">>

Urls == {U_MP3, U_BARE}

UrlLists == UNION {[1..n -> Urls] : n \in 0..MaxUrls}

\* The lists of the two-job specification: none or one .mp3 source.
ShortLists == {<<>>, <<U_MP3>>}

Stderr == {"concat: No such file or directory", "Invalid data found"}

----------------------------------------------------------------------------
(* State *)

VARIABLES
    pc,                \* where each job's run stands
    variant,           \* which pipeline runs the job
    urls,              \* audio_urls / media_urls
    downloaded_files,  \* audio_combiner: the cleanup list
    input_files,       \* concatenate: the downloaded inputs
    concat_path,       \* concat_list_path / concat_file_path, NoPath before assignment
    output_path,
    cloud_url,
    pending,           \* the exception in flight, NoExc when none
    result,            \* what the run gave its caller
    cursor,            \* position of the running removal loop
    fs,                \* local storage: path -> file
    cloud,             \* objects in cloud storage
    logged,            \* diagnostics written to the log, per job
    calls,             \* invocations of fetcher, merge tool and uploader, per job
    fetched,           \* successful download_file calls: url and returned path
    rmlog,             \* removals each job attempted: <<path, outcome>>
    touched,           \* paths of another job's files a job wrote, read or deleted
    dispatch           \* trigger_cloud_run_job: its progress and outcome

jobvars == <<pc, variant, urls, downloaded_files, input_files, concat_path,
             output_path, cloud_url, pending, result, cursor, fs, cloud, logged,
             calls, fetched, rmlog, touched>>

vars == <<jobvars, dispatch>>

NoExc == [type |-> "", text |-> "", detail |-> ""]

NoResult == [status |-> "none", url |-> "", exc |-> NoExc]

Returned(u) == [status |-> "returned", url |-> u, exc |-> NoExc]

Raised(e) == [status |-> "raised", url |-> "", exc |-> e]

File(j, kind, data) == [owner |-> j, kind |-> kind, data |-> data]

Exists(p) == p \in DOMAIN fs

WriteFile(p, f) == [q \in DOMAIN fs \cup {p} |-> IF q = p THEN f ELSE fs[q]]

RemoveFile(p) == [q \in DOMAIN fs \ {p} |-> fs[q]]

\* Paths among S that hold a file another job created.
Foreign(j, S) == {p \in S : Exists(p) /\ fs[p].owner # j}

Range(s) == {s[i] : i \in 1..Len(s)}

\* The jobs of submitted are received, each by one of the two pipelines and
\* with a list of source URLs drawn from lists; the other jobs never run.
JobInit(submitted, lists) ==
    /\ pc = [j \in Jobs |-> IF j \in submitted THEN "idle" ELSE "absent"]
    /\ variant \in [Jobs -> Variants]
    /\ urls \in [Jobs -> lists]
    /\ \A j \in Jobs \ submitted : variant[j] = "combiner" /\ urls[j] = <<>>
    /\ downloaded_files = [j \in Jobs |-> <<>>]
    /\ input_files = [j \in Jobs |-> <<>>]
    /\ concat_path = [j \in Jobs |-> NoPath]
    /\ output_path = [j \in Jobs |-> NoPath]
    /\ cloud_url = [j \in Jobs |-> ""]
    /\ pending = [j \in Jobs |-> NoExc]
    /\ result = [j \in Jobs |-> NoResult]
    /\ cursor = [j \in Jobs |-> 0]
    /\ fs = <<>>
    /\ cloud = {}
    /\ logged = [j \in Jobs |-> {}]
    /\ calls = [j \in Jobs |-> [fetch |-> 0, merge |-> 0, upload |-> 0]]
    /\ fetched = [j \in Jobs |-> <<>>]
    /\ rmlog = [j \in Jobs |-> {}]
    /\ touched = [j \in Jobs |-> {}]

Call(j, what) == [calls EXCEPT ![j][what] = @ + 1]

----------------------------------------------------------------------------
(* services/file_management.py *)

DownloadError == [type |-> "Exception", text |-> "File download failed: ",
                  detail |-> "requests.exceptions.RequestException"]

DownloadResults(url, storage_path) ==
    {[ok |-> FALSE, path |-> NoPath]}
        \cup {[ok |-> TRUE, path |-> local_filename(url, storage_path, u)] : u \in Uuid4}

\* download_file(url, storage_path) called by job j with outcome r: either
\* the request fails before a file is opened, or the file is opened under a
\* name made of the uuid's first group and the stream is written to it, to
\* the end (the path is returned) or until the transport fails.
download_file(j, url, storage_path, r) ==
    \/ /\ r = [ok |-> FALSE, path |-> NoPath]
       /\ UNCHANGED <<fs, touched>>
    \/ \E u \in Uuid4 :
         LET p == local_filename(url, storage_path, u)
         IN  /\ touched' = [touched EXCEPT ![j] = @ \cup Foreign(j, {p})]
             /\ \/ /\ r = [ok |-> TRUE, path |-> p]
                   /\ fs' = WriteFile(p, File(j, "input", <<url>>))
                \/ /\ r = [ok |-> FALSE, path |-> NoPath]
                   /\ fs' = WriteFile(p, File(j, "partial", <<url>>))

RemoveOutcomes == {"removed", "missing", "refused"}

\* One os.remove(p) by job j: the file goes, or the call raises OSError
\* (FileNotFoundError when there is no such file).
os_remove(j, p, outcome) ==
    /\ outcome \in RemoveOutcomes
    /\ (outcome = "missing") <=> ~Exists(p)
    /\ fs' = IF outcome = "removed" THEN RemoveFile(p) ELSE fs
    /\ touched' = [touched EXCEPT ![j] =
                     @ \cup (IF outcome = "removed" THEN Foreign(j, {p}) ELSE {})]
    /\ rmlog' = [rmlog EXCEPT ![j] = @ \cup {<<p, outcome>>}]

\* cleanup_files with its existence test inverted: only a missing path is
\* handed to os.remove, whose error is swallowed.
cleanup_files_step_inverted(j, file_path) ==
    IF Exists(file_path)
    THEN UNCHANGED <<fs, touched, rmlog>>
    ELSE /\ rmlog' = [rmlog EXCEPT ![j] = @ \cup {<<file_path, "missing">>}]
         /\ UNCHANGED <<fs, touched>>

\* One round of the loop of cleanup_files(file_paths) on file_path: a path
\* that does not exist is passed over, an OSError is logged and swallowed.
cleanup_files_step(j, file_path) ==
    IF Exists(file_path)
    THEN \E o \in {"removed", "refused"} : os_remove(j, file_path, o)
    ELSE /\ rmlog' = [rmlog EXCEPT ![j] = @ \cup {<<file_path, "missing">>}]
         /\ UNCHANGED <<fs, touched>>

----------------------------------------------------------------------------
(* The merge tool and the object storage, as the pipelines call them *)

ManifestFile(j, lines) == File(j, "manifest", lines)

\* The tool exits 0 only if it finds the manifest and every file it names.
MergeCanSucceed(cwd, manifest) ==
    /\ Exists(manifest)
    /\ fs[manifest].kind = "manifest"
    /\ \A i \in 1..Len(fs[manifest].data) : Exists(Resolve(cwd, fs[manifest].data[i]))

MergeReads(cwd, manifest) ==
    IF Exists(manifest) /\ fs[manifest].kind = "manifest"
    THEN {Resolve(cwd, fs[manifest].data[i]) : i \in 1..Len(fs[manifest].data)}
    ELSE {}

\* Raised by open() or write() on the manifest.
OSError == [type |-> "OSError", text |-> "", detail |-> "open"]

\* Raised when the merge tool's executable or the output is not found.
FileNotFoundError == [type |-> "FileNotFoundError", text |-> "", detail |-> ""]

\* Raised by os.remove: FileNotFoundError for a missing file, else OSError.
RemoveError(outcome) ==
    [type |-> IF outcome = "missing" THEN "FileNotFoundError" ELSE "OSError",
     text |-> "", detail |-> "os.remove"]

UploadError == [type |-> "UploadError", text |-> "Error uploading file", detail |-> ""]

\* blob.public_url of the object stored under key
public_url(key) == "https://storage.googleapis.com/bucket/" \o key

\* The merge tool started without cwd=: it runs in the process's directory.
MergeCwdInherited(j) == PROCESS_CWD

\* The working directory the merge tool of job j runs in: the combiner passes
\* cwd=LOCAL_STORAGE_PATH to subprocess.run, concatenate passes none.
MergeCwd(j) == IF variant[j] = "combiner" THEN LOCAL_STORAGE_PATH ELSE PROCESS_CWD

----------------------------------------------------------------------------
(* services/audio_combiner.py: process_audio_concatenation(audio_urls, job_id) *)

CombStart(j) ==
    /\ pc[j] = "idle"
    /\ variant[j] = "combiner"
    /\ pc' = [pc EXCEPT ![j] = IF Len(urls[j]) = 0 THEN "c_manifest" ELSE "c_download"]
    /\ downloaded_files' = [downloaded_files EXCEPT ![j] = <<>>]
    /\ output_path' = [output_path EXCEPT ![j] = NoPath]
    /\ UNCHANGED <<dispatch, variant, urls, input_files, concat_path, cloud_url, pending, result,
                   cursor, fs, cloud, logged, calls, fetched, rmlog, touched>>

\* One round of "for url in audio_urls": download_file, then append.
CombDownload(j) ==
    /\ pc[j] = "c_download"
    /\ LET i == Len(downloaded_files[j]) + 1
           url == urls[j][i]
       IN  \E r \in DownloadResults(url, LOCAL_STORAGE_PATH) :
             /\ download_file(j, url, LOCAL_STORAGE_PATH, r)
             /\ calls' = Call(j, "fetch")
             /\ IF r.ok
                THEN /\ downloaded_files' = [downloaded_files EXCEPT ![j] = Append(@, r.path)]
                     /\ fetched' = [fetched EXCEPT ![j] = Append(@, [url |-> url, path |-> r.path])]
                     /\ pc' = [pc EXCEPT ![j] = IF i = Len(urls[j]) THEN "c_manifest"
                                                ELSE "c_download"]
                     /\ UNCHANGED pending
                ELSE /\ pending' = [pending EXCEPT ![j] = DownloadError]
                     /\ pc' = [pc EXCEPT ![j] = "c_finally"]
                     /\ UNCHANGED <<downloaded_files, fetched>>
    /\ UNCHANGED <<dispatch, variant, urls, input_files, concat_path, output_path, cloud_url,
                   result, cursor, cloud, logged, rmlog>>

concat_list_path(job_id) == join(LOCAL_STORAGE_PATH, "concat_list_" \o job_id \o ".txt")

\* The manifest lines written last file first.
concat_list_lines_reversed(files) ==
    [i \in 1..Len(files) |-> <<basename(files[Len(files) + 1 - i])>>]

\* The lines "file '<basename>'" written for the downloaded files, in order.
concat_list_lines(files) == [i \in 1..Len(files) |-> <<basename(files[i])>>]

\* open(concat_list_path, 'w'), the writes, then the append to the cleanup list.
CombManifest(j) ==
    /\ pc[j] = "c_manifest"
    /\ LET p == concat_list_path(j)
       IN  /\ concat_path' = [concat_path EXCEPT ![j] = p]
           /\ \/ /\ fs' = WriteFile(p, ManifestFile(j, concat_list_lines(downloaded_files[j])))
                 /\ touched' = [touched EXCEPT ![j] = @ \cup Foreign(j, {p})]
                 /\ downloaded_files' = [downloaded_files EXCEPT ![j] = Append(@, p)]
                 /\ pc' = [pc EXCEPT ![j] = "c_merge"]
                 /\ UNCHANGED pending
              \/ \E created \in BOOLEAN :
                 /\ fs' = IF created THEN WriteFile(p, File(j, "partial", <<>>)) ELSE fs
                 /\ touched' = [touched EXCEPT ![j] =
                                  @ \cup (IF created THEN Foreign(j, {p}) ELSE {})]
                 /\ pending' = [pending EXCEPT ![j] = OSError]
                 /\ pc' = [pc EXCEPT ![j] = "c_finally"]
                 /\ UNCHANGED downloaded_files
    /\ UNCHANGED <<dispatch, variant, urls, input_files, output_path, cloud_url, result, cursor,
                   cloud, logged, calls, fetched, rmlog>>

merged_path(job_id) == join(LOCAL_STORAGE_PATH, job_id \o "_merged.mp3")

\* The exception raised when ffmpeg exits non-zero with stderr d.
MergeFailure(d) == [type |-> "Exception", text |-> "FFmpeg concatenation failed: ",
                    detail |-> d]

\* subprocess.run(cmd, cwd=LOCAL_STORAGE_PATH, capture_output=True) and the
\* test of its return code.
CombMerge(j) ==
    /\ pc[j] = "c_merge"
    /\ output_path' = [output_path EXCEPT ![j] = merged_path(j)]
    /\ calls' = Call(j, "merge")
    /\ LET manifest == Resolve(MergeCwd(j), <<basename(concat_path[j])>>)
           out == Resolve(MergeCwd(j), <<basename(merged_path(j))>>)
       IN  \/ /\ MergeCanSucceed(MergeCwd(j), manifest)
              /\ fs' = WriteFile(out, File(j, "output", <<>>))
              /\ touched' = [touched EXCEPT ![j] =
                    @ \cup Foreign(j, MergeReads(MergeCwd(j), manifest) \cup {out})]
              /\ pc' = [pc EXCEPT ![j] = "c_upload"]
              /\ UNCHANGED <<pending, logged>>
           \/ \E d \in Stderr, created \in BOOLEAN :
              /\ fs' = IF created THEN WriteFile(out, File(j, "partial", <<>>)) ELSE fs
              /\ touched' = [touched EXCEPT ![j] =
                               @ \cup (IF created THEN Foreign(j, {out}) ELSE {})]
              /\ logged' = [logged EXCEPT ![j] = @ \cup {d}]
              /\ pending' = [pending EXCEPT ![j] = MergeFailure(d)]
              /\ pc' = [pc EXCEPT ![j] = "c_finally"]
    /\ UNCHANGED <<dispatch, variant, urls, downloaded_files, input_files, concat_path, cloud_url,
                   result, cursor, cloud, fetched, rmlog>>

\* The upload tried again after a failure.
CombUploadRetrying(j) ==
    /\ pc[j] = "c_upload"
    /\ calls' = Call(j, "upload")
    /\ LET key == "merged_audio/" \o basename(output_path[j])
       IN  \/ /\ Exists(output_path[j])
              /\ cloud' = cloud \cup {[key |-> key, owner |-> j]}
              /\ cloud_url' = [cloud_url EXCEPT ![j] = public_url(key)]
              /\ pc' = [pc EXCEPT ![j] = "c_finally"]
           \/ UNCHANGED <<cloud, cloud_url, pc>>
    /\ UNCHANGED <<dispatch, variant, urls, downloaded_files, input_files, concat_path,
                   output_path, pending, result, cursor, fs, logged, fetched, rmlog,
                   touched>>

\* upload_file(output_path, f"merged_audio/{output_filename}")
CombUpload(j) ==
    /\ pc[j] = "c_upload"
    /\ calls' = Call(j, "upload")
    /\ LET key == "merged_audio/" \o basename(output_path[j])
       IN  \/ /\ Exists(output_path[j])
              /\ cloud' = cloud \cup {[key |-> key, owner |-> j]}
              /\ cloud_url' = [cloud_url EXCEPT ![j] = public_url(key)]
              /\ UNCHANGED pending
           \/ /\ pending' = [pending EXCEPT ![j] = UploadError]
              /\ UNCHANGED <<cloud, cloud_url>>
    /\ pc' = [pc EXCEPT ![j] = "c_finally"]
    /\ UNCHANGED <<dispatch, variant, urls, downloaded_files, input_files, concat_path, output_path,
                   result, cursor, fs, logged, fetched, rmlog, touched>>

\* finally: the output joins the cleanup list if it exists.
CombFinally(j) ==
    /\ pc[j] = "c_finally"
    /\ downloaded_files' = [downloaded_files EXCEPT ![j] =
          IF output_path[j] # NoPath /\ Exists(output_path[j])
          THEN Append(@, output_path[j]) ELSE @]
    /\ cursor' = [cursor EXCEPT ![j] = 1]
    /\ pc' = [pc EXCEPT ![j] = "c_cleanup"]
    /\ UNCHANGED <<dispatch, variant, urls, input_files, concat_path, output_path, cloud_url,
                   pending, result, fs, cloud, logged, calls, fetched, rmlog, touched>>

\* cleanup_files(downloaded_files), one path a step.
CombCleanup(j) ==
    /\ pc[j] = "c_cleanup"
    /\ cursor[j] <= Len(downloaded_files[j])
    /\ cleanup_files_step(j, downloaded_files[j][cursor[j]])
    /\ cursor' = [cursor EXCEPT ![j] = @ + 1]
    /\ UNCHANGED <<dispatch, pc, variant, urls, downloaded_files, input_files, concat_path,
                   output_path, cloud_url, pending, result, cloud, logged, calls, fetched>>

\* The function returns cloud_url, or the exception in flight goes on.
CombExit(j) ==
    /\ pc[j] = "c_cleanup"
    /\ cursor[j] > Len(downloaded_files[j])
    /\ result' = [result EXCEPT ![j] =
          IF pending[j] = NoExc THEN Returned(cloud_url[j]) ELSE Raised(pending[j])]
    /\ pc' = [pc EXCEPT ![j] = "done"]
    /\ UNCHANGED <<dispatch, variant, urls, downloaded_files, input_files, concat_path, output_path,
                   cloud_url, pending, cursor, fs, cloud, logged, calls, fetched, rmlog,
                   touched>>

----------------------------------------------------------------------------
(* services/v1/audio/concatenate.py: process_audio_concatenate(media_urls, job_id) *)

\* The module's own download_file(url, target_path): it logs a warning and
\* gives the target path back; nothing is fetched and nothing is written.
placeholder_download_file(url, target_path) == target_path

\* The module's own upload_file(local_path, destination_path): a URL built
\* from the destination; nothing is stored.
placeholder_upload_file(local_path, destination_path) ==
    "https://your-storage-bucket/public-url/" \o destination_path

temp_filename_local(job_id, i) ==
    join(LOCAL_STORAGE_PATH, job_id \o "_input_" \o ToString(i) \o ".mp3")

concat_file_path(job_id) == join(LOCAL_STORAGE_PATH, job_id \o "_concat_list.txt")

\* The lines "file '<absolute path with forward slashes>'", in order.
concat_file_lines(files) == [i \in 1..Len(files) |-> abspath(files[i])]

OpaqueMergeError ==
    [type |-> "Exception",
     text |-> "FFmpeg error during concatenation. Check Cloud Run logs for details.",
     detail |-> ""]

ConcStart(j) ==
    /\ pc[j] = "idle"
    /\ variant[j] = "concatenate"
    /\ pc' = [pc EXCEPT ![j] = IF Len(urls[j]) = 0 THEN "n_manifest" ELSE "n_download"]
    /\ input_files' = [input_files EXCEPT ![j] = <<>>]
    /\ output_path' = [output_path EXCEPT ![j] = join(LOCAL_STORAGE_PATH, j \o ".mp3")]
    /\ UNCHANGED <<dispatch, variant, urls, downloaded_files, concat_path, cloud_url, pending,
                   result, cursor, fs, cloud, logged, calls, fetched, rmlog, touched>>

\* One round of "for i, media_item in enumerate(media_urls)".
ConcDownload(j) ==
    /\ pc[j] = "n_download"
    /\ LET i == Len(input_files[j])
           url == urls[j][i + 1]
           input_filename == placeholder_download_file(url, temp_filename_local(j, i))
       IN  /\ input_files' = [input_files EXCEPT ![j] = Append(@, input_filename)]
           /\ fetched' = [fetched EXCEPT ![j] =
                            Append(@, [url |-> url, path |-> input_filename])]
           /\ pc' = [pc EXCEPT ![j] = IF i + 1 = Len(urls[j]) THEN "n_manifest"
                                      ELSE "n_download"]
    /\ calls' = Call(j, "fetch")
    /\ UNCHANGED <<dispatch, variant, urls, downloaded_files, concat_path, output_path, cloud_url,
                   pending, result, cursor, fs, cloud, logged, rmlog, touched>>

\* open(concat_file_path, 'w') and the writes; a failure goes to "except Exception".
ConcManifest(j) ==
    /\ pc[j] = "n_manifest"
    /\ LET p == concat_file_path(j)
       IN  /\ concat_path' = [concat_path EXCEPT ![j] = p]
           /\ \/ /\ fs' = WriteFile(p, ManifestFile(j, concat_file_lines(input_files[j])))
                 /\ touched' = [touched EXCEPT ![j] = @ \cup Foreign(j, {p})]
                 /\ pc' = [pc EXCEPT ![j] = "n_merge"]
                 /\ UNCHANGED <<pending, cursor>>
              \/ \E created \in BOOLEAN :
                 /\ fs' = IF created THEN WriteFile(p, File(j, "partial", <<>>)) ELSE fs
                 /\ touched' = [touched EXCEPT ![j] =
                                  @ \cup (IF created THEN Foreign(j, {p}) ELSE {})]
                 /\ pending' = [pending EXCEPT ![j] = OSError]
                 /\ cursor' = [cursor EXCEPT ![j] = 1]
                 /\ pc' = [pc EXCEPT ![j] = "n_handler"]
    /\ UNCHANGED <<dispatch, variant, urls, downloaded_files, input_files, output_path, cloud_url,
                   result, cloud, logged, calls, fetched, rmlog>>

\* ffmpeg.input(concat_file_path, ...).output(output_path, c='copy').run(...):
\* the tool succeeds, or fails with ffmpeg.Error (handled by the first except
\* clause, which raises the opaque error at once), or cannot be started.
ConcMerge(j) ==
    /\ pc[j] = "n_merge"
    /\ calls' = Call(j, "merge")
    /\ LET manifest == Resolve(MergeCwd(j), concat_path[j])
           out == Resolve(MergeCwd(j), output_path[j])
       IN  \/ /\ MergeCanSucceed(MergeCwd(j), manifest)
              /\ fs' = WriteFile(out, File(j, "output", <<>>))
              /\ touched' = [touched EXCEPT ![j] =
                    @ \cup Foreign(j, MergeReads(MergeCwd(j), manifest) \cup {out})]
              /\ pc' = [pc EXCEPT ![j] = "n_upload"]
              /\ UNCHANGED <<pending, result, cursor, logged>>
           \/ \E d \in Stderr, created \in BOOLEAN :
              /\ fs' = IF created THEN WriteFile(out, File(j, "partial", <<>>)) ELSE fs
              /\ touched' = [touched EXCEPT ![j] =
                               @ \cup (IF created THEN Foreign(j, {out}) ELSE {})]
              /\ logged' = [logged EXCEPT ![j] = @ \cup {d}]
              /\ result' = [result EXCEPT ![j] = Raised(OpaqueMergeError)]
              /\ pc' = [pc EXCEPT ![j] = "done"]
              /\ UNCHANGED <<pending, cursor>>
           \/ /\ pending' = [pending EXCEPT ![j] = FileNotFoundError]
              /\ cursor' = [cursor EXCEPT ![j] = 1]
              /\ pc' = [pc EXCEPT ![j] = "n_handler"]
              /\ UNCHANGED <<fs, touched, result, logged>>
    /\ UNCHANGED <<dispatch, variant, urls, downloaded_files, input_files, concat_path, output_path,
                   cloud_url, cloud, fetched, rmlog>>

\* The test that the output exists, then upload_file.
ConcUpload(j) ==
    /\ pc[j] = "n_upload"
    /\ cursor' = [cursor EXCEPT ![j] = 1]
    /\ IF Exists(output_path[j])
       THEN /\ cloud_url' = [cloud_url EXCEPT ![j] =
                 placeholder_upload_file(output_path[j],
                                         "merged_audio/" \o basename(output_path[j]))]
            /\ calls' = Call(j, "upload")
            /\ pc' = [pc EXCEPT ![j] = "n_remove"]
            /\ UNCHANGED pending
       ELSE /\ pending' = [pending EXCEPT ![j] = FileNotFoundError]
            /\ pc' = [pc EXCEPT ![j] = "n_handler"]
            /\ UNCHANGED <<cloud_url, calls>>
    /\ UNCHANGED <<dispatch, variant, urls, downloaded_files, input_files, concat_path, output_path,
                   result, fs, cloud, logged, fetched, rmlog, touched>>

\* After the upload: os.remove(output_path), each input, then the manifest.
success_removals(j) == <<output_path[j]>> \o input_files[j] \o <<concat_path[j]>>

\* "except Exception": each input, the manifest if the name is bound, the
\* output; each removed if it exists.
handler_removals(j) ==
    input_files[j] \o (IF concat_path[j] # NoPath THEN <<concat_path[j]>> ELSE <<>>)
                   \o <<output_path[j]>>

\* One os.remove of the success path; an OSError is caught by "except Exception".
ConcRemove(j) ==
    /\ pc[j] = "n_remove"
    /\ cursor[j] <= Len(success_removals(j))
    /\ \E o \in RemoveOutcomes :
         /\ os_remove(j, success_removals(j)[cursor[j]], o)
         /\ IF o = "removed"
            THEN /\ cursor' = [cursor EXCEPT ![j] = @ + 1]
                 /\ UNCHANGED <<pc, pending>>
            ELSE /\ pending' = [pending EXCEPT ![j] = RemoveError(o)]
                 /\ cursor' = [cursor EXCEPT ![j] = 1]
                 /\ pc' = [pc EXCEPT ![j] = "n_handler"]
    /\ UNCHANGED <<dispatch, variant, urls, downloaded_files, input_files, concat_path, output_path,
                   cloud_url, result, cloud, logged, calls, fetched>>

ConcReturn(j) ==
    /\ pc[j] = "n_remove"
    /\ cursor[j] > Len(success_removals(j))
    /\ result' = [result EXCEPT ![j] = Returned(cloud_url[j])]
    /\ pc' = [pc EXCEPT ![j] = "done"]
    /\ UNCHANGED <<dispatch, variant, urls, downloaded_files, input_files, concat_path, output_path,
                   cloud_url, pending, cursor, fs, cloud, logged, calls, fetched, rmlog,
                   touched>>

\* One "if os.path.exists(f): os.remove(f)" of the handler; an OSError here
\* leaves the function in place of the exception being handled.
ConcHandler(j) ==
    /\ pc[j] = "n_handler"
    /\ cursor[j] <= Len(handler_removals(j))
    /\ LET p == handler_removals(j)[cursor[j]]
       IN  IF Exists(p)
           THEN \E o \in {"removed", "refused"} :
                  /\ os_remove(j, p, o)
                  /\ IF o = "removed"
                     THEN /\ cursor' = [cursor EXCEPT ![j] = @ + 1]
                          /\ UNCHANGED <<pc, result>>
                     ELSE /\ result' = [result EXCEPT ![j] = Raised(RemoveError(o))]
                          /\ pc' = [pc EXCEPT ![j] = "done"]
                          /\ UNCHANGED cursor
           ELSE /\ cursor' = [cursor EXCEPT ![j] = @ + 1]
                /\ rmlog' = [rmlog EXCEPT ![j] = @ \cup {<<p, "missing">>}]
                /\ UNCHANGED <<pc, result, fs, touched>>
    /\ UNCHANGED <<dispatch, variant, urls, downloaded_files, input_files, concat_path, output_path,
                   cloud_url, pending, cloud, logged, calls, fetched>>

\* The bare "raise" that ends the handler.
ConcReraise(j) ==
    /\ pc[j] = "n_handler"
    /\ cursor[j] > Len(handler_removals(j))
    /\ result' = [result EXCEPT ![j] = Raised(pending[j])]
    /\ pc' = [pc EXCEPT ![j] = "done"]
    /\ UNCHANGED <<dispatch, variant, urls, downloaded_files, input_files, concat_path, output_path,
                   cloud_url, pending, cursor, fs, cloud, logged, calls, fetched, rmlog,
                   touched>>

----------------------------------------------------------------------------
(* Specifications *)

JobStep(j) ==
    \/ CombStart(j) \/ CombDownload(j) \/ CombManifest(j) \/ CombMerge(j)
    \/ CombUpload(j) \/ CombFinally(j) \/ CombCleanup(j) \/ CombExit(j)
    \/ ConcStart(j) \/ ConcDownload(j) \/ ConcManifest(j) \/ ConcMerge(j)
    \/ ConcUpload(j) \/ ConcRemove(j) \/ ConcReturn(j) \/ ConcHandler(j)
    \/ ConcReraise(j)

----------------------------------------------------------------------------
(* services/gcp_toolkit.py: trigger_cloud_run_job(job_name, location, overrides) *)

\* What GCP_SA_CREDENTIALS may hold when the function runs.
CredentialEnvs == {"unset", "empty", "not_json", "incomplete", "no_project", "complete"}

JobNames == {"concat-job", "media-job"}

Locations == {"us-central1", "europe-west1"}

Overrides == {"None", "container_overrides"}

ApiErrors == {"403 permission denied", "404 job not found"}

DispatchOff ==
    [pc |-> "off", env |-> "unset", job_name |-> "", location |-> "", overrides |-> "None",
     project_id |-> "", job_path |-> "", status |-> "none", exc |-> "",
     ret |-> [job_submitted |-> FALSE]]

DispatchCalls ==
    {[DispatchOff EXCEPT !.pc = "credentials", !.env = e, !.job_name = n,
                         !.location = l, !.overrides = o] :
        e \in CredentialEnvs, n \in JobNames, l \in Locations, o \in Overrides}

\* str(project_id) as the f-string of job_path prints it
project_id_of(env) == IF env = "complete" THEN "my-project" ELSE "None"

job_path_of(project_id, location, job_name) ==
    "projects/" \o project_id \o "/locations/" \o location \o "/jobs/" \o job_name

\* The dict returned when client.run_job gave an operation.
submitted_result(job_path) ==
    [operation_name |-> job_path \o "/operations/op",
     execution_name |-> job_path \o "/executions/ex",
     job_submitted |-> TRUE]

\* The error dict with the flag left true.
failed_result_flag_true(e) == [job_submitted |-> TRUE, error |-> e]

\* The dict returned when client.run_job raised GoogleAPIError e.
failed_result(e) == [job_submitted |-> FALSE, error |-> e]

DispatchRaise(type) ==
    dispatch' = [dispatch EXCEPT !.pc = "done", !.status = "raised", !.exc = type]

\* os.environ.get("GCP_SA_CREDENTIALS") and the test of it
TriggerCredentials ==
    /\ dispatch.pc = "credentials"
    /\ IF dispatch.env \in {"unset", "empty"}
       THEN DispatchRaise("ValueError")
       ELSE dispatch' = [dispatch EXCEPT !.pc = "parse"]
    /\ UNCHANGED jobvars

\* json.loads, Credentials.from_service_account_info, JobsClient, job_path, request
TriggerParse ==
    /\ dispatch.pc = "parse"
    /\ IF dispatch.env = "not_json" THEN DispatchRaise("JSONDecodeError")
       ELSE IF dispatch.env = "incomplete" THEN DispatchRaise("ValueError")
       ELSE dispatch' = [dispatch EXCEPT
              !.pc = "run_job",
              !.project_id = project_id_of(dispatch.env),
              !.job_path = job_path_of(project_id_of(dispatch.env), dispatch.location,
                                       dispatch.job_name)]
    /\ UNCHANGED jobvars

\* try: client.run_job(request=request) ... except GoogleAPIError
TriggerRunJob ==
    /\ dispatch.pc = "run_job"
    /\ \/ dispatch' = [dispatch EXCEPT !.pc = "done", !.status = "returned",
                                       !.ret = submitted_result(dispatch.job_path)]
       \/ \E e \in ApiErrors :
            dispatch' = [dispatch EXCEPT !.pc = "done", !.status = "returned",
                                         !.ret = failed_result(e)]
    /\ UNCHANGED jobvars

DispatchInit == dispatch = DispatchOff

Next == \E j \in Jobs : JobStep(j)

\* One job, any list of up to MaxUrls source URLs.
Init == JobInit({"A"}, UrlLists) /\ DispatchInit

Spec == Init /\ [][Next]_vars

\* Two jobs with distinct identifiers run side by side on one local storage.
InitTwo == JobInit(Jobs, ShortLists) /\ DispatchInit

SpecTwo == InitTwo /\ [][Next]_vars

\* One call of trigger_cloud_run_job; no job runs in this process.
InitDispatch == JobInit({}, {<<>>}) /\ dispatch \in DispatchCalls

NextDispatch == TriggerCredentials \/ TriggerParse \/ TriggerRunJob

SpecDispatch == InitDispatch /\ [][NextDispatch]_vars

----------------------------------------------------------------------------
(* Properties *)

Ended(j) == pc[j] = "done"

\* A request the spec accepts: at least two source URLs.
Valid(j) == Len(urls[j]) >= 2

\* The files on local storage that job j created.
Owned(j) == {p \in DOMAIN fs : fs[p].owner = j}

Refused(j, p) == <<p, "refused">> \in rmlog[j]

Attempted(j, p) == \E o \in RemoveOutcomes : <<p, o>> \in rmlog[j]

\* The paths download_file returned to job j, in call order.
FetchedPaths(j) == {fetched[j][i].path : i \in 1..Len(fetched[j])}

\* A download_file call of job j did not return.
DownloadFailed(j) == calls[j].fetch > Len(fetched[j])

\* The merge tool ran for job j and the uploader did not: the merge failed.
MergeFailed(j) == Ended(j) /\ calls[j].merge = 1 /\ calls[j].upload = 0

\* C1: once the run of a job of two or more URLs has returned or raised, no
\* local file that the run created still exists (a file whose removal the
\* operating system refused aside).
C1_NoFileSurvives ==
    \A j \in Jobs : (Valid(j) /\ Ended(j)) => \A p \in Owned(j) : Refused(j, p)

\* C2: when the merge tool fails after the downloads and the manifest, every
\* downloaded input and the manifest are deleted before the failure reaches
\* the caller (a file whose removal the operating system refused aside).
C2_MergeFailureCleansUp ==
    \A j \in Jobs :
        (Valid(j) /\ MergeFailed(j)) =>
            \A p \in FetchedPaths(j) \cup {concat_path[j]} : ~Exists(p) \/ Refused(j, p)

\* C3 as stated: if the download of input k fails, merge tool and uploader are
\* never invoked and every input 1..k-1 is deleted by the time the run ends.
C3_DownloadFailureAborts ==
    \A j \in Jobs :
        (Ended(j) /\ DownloadFailed(j)) =>
            /\ calls[j].merge = 0 /\ calls[j].upload = 0
            /\ \A p \in FetchedPaths(j) : ~Exists(p)

\* C3 as amended: if the download of input k fails, merge tool and uploader
\* are never invoked and, by the time the run ends, cleanup has tried to
\* remove every input 1..k-1: each is gone unless its removal was refused.
C3_DownloadFailureAbortsUnlessRefused ==
    \A j \in Jobs :
        (Ended(j) /\ DownloadFailed(j)) =>
            /\ calls[j].merge = 0 /\ calls[j].upload = 0
            /\ \A p \in FetchedPaths(j) :
                 /\ Attempted(j, p)
                 /\ (Exists(p) /\ fs[p].owner = j) => Refused(j, p)

\* A run ended by the failure of its second download, its first input removed.
C3_Witness ==
    \E j \in Jobs :
        /\ Ended(j) /\ DownloadFailed(j) /\ Len(fetched[j]) = 1
        /\ <<fetched[j][1].path, "removed">> \in rmlog[j]
        /\ ~Exists(fetched[j][1].path)
        /\ result[j].status = "raised"

\* C4: a job with fewer than 2 source URLs never reaches the fetcher and ends
\* in a validation failure.
C4_FewUrlsRejected ==
    \A j \in Jobs :
        Len(urls[j]) < 2 =>
            /\ calls[j].fetch = 0
            /\ Ended(j) => (result[j].status = "raised"
                            /\ result[j].exc.type = "ValidationError")

\* C5: of two jobs with distinct identifiers, neither writes, reads as a
\* manifest entry or deletes a local file the other created.
C5_NoInterference == \A j \in Jobs : touched[j] = {}

ManifestWritten(j) ==
    /\ concat_path[j] # NoPath
    /\ Exists(concat_path[j])
    /\ fs[concat_path[j]].kind = "manifest"

\* C6: the manifest of a job with N source URLs has N lines, line i naming the
\* local file download_file returned for the i-th URL, and names neither the
\* manifest nor the output.
C6_ManifestOrder ==
    \A j \in Jobs :
        ManifestWritten(j) =>
            LET m == fs[concat_path[j]].data
            IN  /\ Len(m) = Len(urls[j])
                /\ Len(fetched[j]) = Len(urls[j])
                /\ \A i \in 1..Len(m) :
                     /\ fetched[j][i].url = urls[j][i]
                     /\ Resolve(MergeCwd(j), m[i]) = fetched[j][i].path
                     /\ Resolve(MergeCwd(j), m[i]) \notin
                            {concat_path[j], output_path[j], merged_path(j)}

\* A manifest of two lines naming two different files.
C6_Witness ==
    \E j \in Jobs :
        /\ ManifestWritten(j)
        /\ Len(fs[concat_path[j]].data) = 2
        /\ fs[concat_path[j]].data[1] # fs[concat_path[j]].data[2]
        /\ urls[j][1] # urls[j][2]

\* C7: when the merge tool fails, the error given to the caller carries
\* neither the tool's stderr nor a local path.
C7_OpaqueMergeError ==
    \A j \in Jobs :
        (Valid(j) /\ MergeFailed(j) /\ result[j].status = "raised") =>
            result[j].exc.detail \notin Stderr

\* The removal pass of job j ran: always in the combiner (finally), and in
\* concatenate unless the "except ffmpeg.Error" clause ended the run.
CleanupRan(j) ==
    Ended(j) /\ (variant[j] = "combiner" \/ result[j].exc # OpaqueMergeError)

CleanupSet(j) ==
    IF variant[j] = "combiner" THEN Range(downloaded_files[j])
    ELSE Range(handler_removals(j))

\* C8: cleanup tries every path of its set, and neither a missing path nor a
\* refused removal changes the job's outcome: the URL if the upload gave one,
\* else the error that ended the stages.
C8_CleanupNeverChangesOutcome ==
    \A j \in Jobs :
        (Valid(j) /\ CleanupRan(j)) =>
            /\ \A p \in CleanupSet(j) : Attempted(j, p)
            /\ result[j] = IF cloud_url[j] # "" THEN Returned(cloud_url[j])
                           ELSE Raised(pending[j])

\* C9: each source URL is fetched at most once, merge tool and uploader are
\* invoked at most once; a job that returns has made exactly one upload and
\* returns the URL that upload gave.
C9_NothingRetried ==
    \A j \in Jobs :
        /\ calls[j].fetch <= Len(urls[j])
        /\ \A i \in 1..Len(fetched[j]) : fetched[j][i].url = urls[j][i]
        /\ calls[j].merge <= 1
        /\ calls[j].upload <= 1
        /\ result[j].status = "returned" =>
             /\ calls[j].upload = 1
             /\ result[j].url = cloud_url[j]
             /\ result[j].url # ""
             /\ variant[j] = "combiner" =>
                  /\ Cardinality({o \in cloud : o.owner = j}) = 1
                  /\ \A o \in cloud : o.owner = j => result[j].url = public_url(o.key)

\* A job of two source URLs that returned the URL of its one uploaded object.
C9_Witness ==
    \E j \in Jobs :
        /\ result[j].status = "returned"
        /\ Len(urls[j]) = 2
        /\ calls[j] = [fetch |-> 2, merge |-> 1, upload |-> 1]
        /\ cloud = {[key |-> "merged_audio/" \o j \o "_merged.mp3", owner |-> j]}

DispatchDone == dispatch.pc = "done"

\* The returned dict holds the flag and, with it, either the execution
\* reference (flag true) or the error (flag false), not both.
WellFormedRecord(r) ==
    /\ "job_submitted" \in DOMAIN r
    /\ r.job_submitted \in BOOLEAN
    /\ r.job_submitted => ("execution_name" \in DOMAIN r /\ "error" \notin DOMAIN r)
    /\ ~r.job_submitted => ("error" \in DOMAIN r /\ "execution_name" \notin DOMAIN r)

\* C10 as stated: every dispatch attempt ends by returning such a record.
C10_AlwaysARecord ==
    DispatchDone => (dispatch.status = "returned" /\ WellFormedRecord(dispatch.ret))

\* C10 as amended: an attempt that gets as far as client.run_job ends by
\* returning such a record, a GoogleAPIError included; an attempt whose
\* credentials are unset, empty, not JSON or incomplete raises instead.
C10_RecordOnceCredentialsLoad ==
    DispatchDone =>
        IF dispatch.env \in {"complete", "no_project"}
        THEN dispatch.status = "returned" /\ WellFormedRecord(dispatch.ret)
        ELSE dispatch.status = "raised"
             /\ dispatch.exc \in {"ValueError", "JSONDecodeError"}

\* A dispatch the API refused, reported through the record.
C10_Witness ==
    /\ DispatchDone
    /\ dispatch.status = "returned"
    /\ dispatch.ret.job_submitted = FALSE
    /\ dispatch.ret.error \in ApiErrors

\* The stage of the spec's state machine that job j is in.
Stage(j) ==
    CASE pc[j] \in {"absent", "idle"} -> "RECEIVED"
      [] pc[j] \in {"c_download", "n_download"} -> "DOWNLOADING"
      [] pc[j] \in {"c_manifest", "n_manifest"} -> "MANIFESTING"
      [] pc[j] \in {"c_merge", "n_merge"} -> "MERGING"
      [] pc[j] \in {"c_upload", "n_upload"} -> "UPLOADING"
      [] pc[j] \in {"c_finally", "c_cleanup", "n_remove", "n_handler"} -> "CLEANING"
      [] OTHER -> IF result[j].status = "returned" THEN "DONE" ELSE "FAILED"

\* The steps of the stage order: one stage forward, or from a working stage
\* straight to CLEANING, and from CLEANING to the end.
StageStep(s, t) ==
    \/ s = t
    \/ <<s, t>> \in {<<"RECEIVED", "DOWNLOADING">>, <<"DOWNLOADING", "MANIFESTING">>,
                     <<"MANIFESTING", "MERGING">>, <<"MERGING", "UPLOADING">>,
                     <<"CLEANING", "DONE">>, <<"CLEANING", "FAILED">>}
    \/ /\ s \in {"DOWNLOADING", "MANIFESTING", "MERGING", "UPLOADING"}
       /\ t = "CLEANING"

\* C11: every step of a job of two or more URLs follows the stage order
\* DOWNLOADING, MANIFESTING, MERGING, UPLOADING, CLEANING, then DONE or FAILED:
\* the manifest stage starts only when all N downloads returned, the merge
\* stage only with the manifest written, the uploader is called only from the
\* upload stage on the merged output, and a failure goes to CLEANING, so that
\* no run ends without having passed through CLEANING.
C11_StageOrder ==
    [][\A j \in Jobs :
         Valid(j) =>
           /\ StageStep(Stage(j), Stage(j)')
           /\ (Stage(j)' = "MANIFESTING") => (Len(fetched'[j]) = Len(urls[j]))
           /\ (Stage(j)' = "MERGING") => ManifestWritten(j)'
           /\ (Stage(j)' = "UPLOADING") => (calls'[j].merge = 1 /\ Exists(output_path[j])')
           /\ (calls'[j].upload # calls[j].upload) => (Stage(j) = "UPLOADING")]_vars

\* C12: from the moment the final cleanup of a job of two or more URLs has its
\* set of paths, every local file the job has written and that is still on
\* disk is in that set: also the file left by a download that failed
\* mid-stream and the file left by a manifest write that failed partway.
C12_WrittenFilesRegistered ==
    \A j \in Jobs :
        (Valid(j) /\ pc[j] \in {"c_cleanup", "n_remove", "n_handler", "done"}) =>
            Owned(j) \subseteq CleanupSet(j)

\* C13: when the merge tool is about to be invoked the manifest is on disk
\* with one reference per downloaded file, and each reference, resolved from
\* the directory the tool is started in, is the path download_file returned
\* for that entry: a reference is either a bare file name, and then the tool
\* runs in the storage directory that holds the file, or an absolute path.
C13_PathConvention ==
    \A j \in Jobs :
        pc[j] \in {"c_merge", "n_merge"} =>
            /\ ManifestWritten(j)
            /\ Len(fs[concat_path[j]].data) = Len(fetched[j])
            /\ \A i \in 1..Len(fetched[j]) :
                 LET ref == fs[concat_path[j]].data[i]
                     file == fetched[j][i].path
                 IN  /\ Resolve(MergeCwd(j), ref) = file
                     /\ \/ IsAbs(ref)
                        \/ ref = <<basename(file)>> /\ join(MergeCwd(j), basename(file)) = file

\* The combiner about to start the merge tool in the storage directory on a
\* manifest of two bare file names.
C13_Witness ==
    \E j \in Jobs :
        /\ pc[j] = "c_merge"
        /\ Len(fetched[j]) = 2
        /\ ManifestWritten(j)
        /\ \A i \in 1..2 : ~IsAbs(fs[concat_path[j]].data[i])
        /\ MergeCwd(j) = LOCAL_STORAGE_PATH

\* C14: the paths download_file returned to one job lie in the storage
\* directory and are pairwise distinct, also for one URL fetched twice, so
\* that each input has a local file of its own and no download overwrites
\* another.
C14_DistinctPaths ==
    \A j \in Jobs :
        variant[j] = "combiner" =>
            \A i, k \in 1..Len(fetched[j]) :
                /\ fetched[j][i].path = join(LOCAL_STORAGE_PATH, basename(fetched[j][i].path))
                /\ i # k => fetched[j][i].path # fetched[j][k].path

\* The uploader gave job j a URL: the upload succeeded.
Uploaded(j) == cloud_url[j] # ""

\* C15: a run that ends in failure has uploaded nothing; once the uploader has
\* given a URL the run returns that URL, whatever the removals that follow do.
C15_NoFailureAfterUpload ==
    \A j \in Jobs :
        Ended(j) =>
            /\ result[j].status = "raised" =>
                 (~Uploaded(j) /\ \A o \in cloud : o.owner # j)
            /\ Uploaded(j) => result[j] = Returned(cloud_url[j])

====
